---- MODULE Spec2Model ----
(***************************************************************************)
(* A model of the LLM-driven API test agent:                               *)
(*   - main.py        the fixture API (three GET routes)                   *)
(*   - api_tester.py  the CLI: plan / generate / run / feedback            *)
(*   - agent_tools.py the tools safe_run_tests calls, one CLI run each     *)
(*   - agent.py       safe_run_tests, the single-reflection loop           *)
(* Texts are TLA+ strings; Python's str operations are computed on them    *)
(* character by character.                                                 *)
(***************************************************************************)
EXTENDS Integers, Sequences, FiniteSets, TLC

VARIABLES
    request,            \* main.py: the GET request being served
    response,           \* main.py: the response sent, or Pending
    argv,               \* api_tester.py: sys.argv of the last CLI process
    environ_key,        \* os.getenv("OPENROUTER_API_KEY") in that process
    http,               \* what the completion service answered to that process
    completion,         \* how call_openrouter ended in that process
    posts,              \* the prompts POSTed to the completion service
    file,               \* generated_tests.py: PyNone (absent) or its content
    file_before,        \* the file as the last CLI process found it
    exit_status,        \* exit status of the last CLI process
    stdout,             \* what the last CLI process wrote to its stdout
    pc,                 \* agent.py: position inside safe_run_tests
    first_run_output,   \* agent.py: locals of safe_run_tests
    feedback_output,
    generate_output,
    second_run_output,
    report,             \* the value safe_run_tests returned
    calls,              \* the tools safe_run_tests has called, in order
    response_text,      \* extract_code_from_response: its argument llm_response
    extracted           \* extract_code_from_response: the value returned

apiVars == <<request, response>>
cliVars == <<argv, environ_key, http, completion, posts, file, file_before,
             exit_status, stdout>>
agentVars == <<pc, first_run_output, feedback_output, generate_output,
               second_run_output, report, calls>>
extractVars == <<response_text, extracted>>
vars == <<apiVars, cliVars, agentVars, extractVars>>

-----------------------------------------------------------------------------
(* Python values                                                           *)

PyNone == [t |-> "None"]
PyStr(s) == [t |-> "str", s |-> s]

\* A local that has not been assigned yet.
Unset == [t |-> "unset"]

-----------------------------------------------------------------------------
(* Python str operations                                                   *)

Char(s, i) == SubSeq(s, i, i)

\* str.isspace for one character (the characters \s and str.strip remove).
IsSpace(c) == c \in {" ", "\t", "\n", "\r", "\f"}

UpperLetters == <<"A", "B", "C", "D", "E", "F", "G", "H", "I", "J", "K", "L", "M",
                  "N", "O", "P", "Q", "R", "S", "T", "U", "V", "W", "X", "Y", "Z">>
LowerLetters == <<"a", "b", "c", "d", "e", "f", "g", "h", "i", "j", "k", "l", "m",
                  "n", "o", "p", "q", "r", "s", "t", "u", "v", "w", "x", "y", "z">>

LowerChar(c) ==
    IF \E k \in 1..26 : UpperLetters[k] = c
    THEN LowerLetters[CHOOSE k \in 1..26 : UpperLetters[k] = c]
    ELSE c

\* str.lower()
RECURSIVE Lower(_)
Lower(s) ==
    IF Len(s) = 0 THEN ""
    ELSE IF Len(s) = 1 THEN LowerChar(s)
    ELSE LET h == Len(s) \div 2
         IN  Lower(SubSeq(s, 1, h)) \o Lower(SubSeq(s, h + 1, Len(s)))

\* s.startswith(t)
StartsWith(s, t) == Len(s) >= Len(t) /\ SubSeq(s, 1, Len(t)) = t

\* The first index in lo..hi at which t occurs in s, or 0 (searched by halves,
\* left half first).
RECURSIVE FindIn(_, _, _, _)
FindIn(s, t, lo, hi) ==
    IF lo > hi THEN 0
    ELSE IF lo = hi THEN (IF SubSeq(s, lo, lo + Len(t) - 1) = t THEN lo ELSE 0)
    ELSE LET mid == (lo + hi) \div 2
             left == FindIn(s, t, lo, mid)
         IN  IF left # 0 THEN left ELSE FindIn(s, t, mid + 1, hi)

\* The first index >= from at which t occurs in s, or 0.
Find(s, t, from) == FindIn(s, t, from, Len(s) - Len(t) + 1)

\* `t in s`
Contains(s, t) == Find(s, t, 1) # 0

\* The index of the first character at or after `from` that is not whitespace
\* (Len(s) + 1 when there is none).
RECURSIVE SkipSpace(_, _)
SkipSpace(s, from) ==
    IF from > Len(s) THEN Len(s) + 1
    ELSE IF ~IsSpace(Char(s, from)) THEN from
    ELSE SkipSpace(s, from + 1)

\* The index of the last character at or before `to` that is not whitespace
\* (0 when there is none).
RECURSIVE SkipSpaceBack(_, _)
SkipSpaceBack(s, to) ==
    IF to < 1 THEN 0
    ELSE IF ~IsSpace(Char(s, to)) THEN to
    ELSE SkipSpaceBack(s, to - 1)

\* s.rstrip()
RStrip(s) == SubSeq(s, 1, SkipSpaceBack(s, Len(s)))

\* s.strip()
Strip(s) == RStrip(SubSeq(s, SkipSpace(s, 1), Len(s)))

-----------------------------------------------------------------------------
(* main.py: the fixture API                                                *)

Pending == [status |-> 0, body |-> ""]

JsonResponse(body) == [status |-> 200, body |-> body]
HTTPException(status_code, detail) ==
    [status |-> status_code, body |-> "{\"detail\":\"" \o detail \o "\"}"]

\* The param checks placed after the Authorization checks.
get_endpoint_auth_first(param, auth_header) ==
    IF auth_header = PyStr("Bearer invalid-api-key") THEN HTTPException(403, "Forbidden")
    ELSE IF auth_header = PyNone THEN HTTPException(401, "Unauthorized")
    ELSE IF param = PyStr("max") \/ param = PyStr("min")
         THEN JsonResponse("{\"result\":\"success\"}")
    ELSE HTTPException(404, "Not found")

get_endpoint(param, auth_header) ==
    IF param = PyStr("max") THEN JsonResponse("{\"result\":\"success\"}")
    ELSE IF param = PyStr("min") THEN JsonResponse("{\"result\":\"success\"}")
    ELSE IF auth_header = PyStr("Bearer invalid-api-key") THEN HTTPException(403, "Forbidden")
    ELSE IF auth_header = PyNone THEN HTTPException(401, "Unauthorized")
    ELSE HTTPException(404, "Not found")

get_nonexistent == HTTPException(404, "Non-existent endpoint")

get_error == HTTPException(500, "Server error")

Paths == {"/api/endpoint", "/api/nonexistent", "/api/error"}

\* The app's routing of a GET request.
app(req) ==
    CASE req.path = "/api/endpoint" -> get_endpoint(req.param, req.auth)
      [] req.path = "/api/nonexistent" -> get_nonexistent
      [] req.path = "/api/error" -> get_error

\* Query values and Authorization values the requests are drawn from.
Params == {PyNone} \cup {PyStr(s) : s \in {"max", "min", "random", "100", "", "MAX", "maximum"}}
AuthHeaders == {PyNone} \cup {PyStr(s) : s \in {"Bearer invalid-api-key", "Bearer valid-api-key",
                                               "Bearer some-random-key", "", "invalid-api-key"}}
Requests == [path : Paths, param : Params, auth : AuthHeaders]

\* The server answers the request.
Serve ==
    /\ response = Pending
    /\ response' = app(request)
    /\ UNCHANGED <<request, cliVars, agentVars, extractVars>>

-----------------------------------------------------------------------------
(* JSON values of a response body                                          *)

JNull == [t |-> "null"]
JStr(s) == [t |-> "str", s |-> s]
JList(l) == [t |-> "list", l |-> l]
JObj(o) == [t |-> "obj", o |-> o]

\* Python truth of a JSON value (`x and ...`).
Truthy(v) ==
    CASE v.t = "null" -> FALSE
      [] v.t = "str" -> v.s # ""
      [] v.t = "list" -> v.l # <<>>
      [] v.t = "obj" -> DOMAIN v.o # {}

-----------------------------------------------------------------------------
(* api_tester.py: call_openrouter                                          *)

\* How a call ended: a returned text, or an exception that left the function.
Returned(text, posted) == [outcome |-> "return", text |-> text, exc |-> "", posted |-> posted]
Raised(exc, posted) == [outcome |-> "raise", text |-> "", exc |-> exc, posted |-> posted]
NoCall == [outcome |-> "none", text |-> "", exc |-> "", posted |-> <<>>]

\* The completion service was not contacted.
NotContacted == [kind |-> "none", status_code |-> 0, text |-> "", json |-> JNull,
                 repr |-> "", e |-> ""]

MISSING_KEY_ERROR ==
    "ERROR: The environment variable OPENROUTER_API_KEY is not set.\n"
    \o "Please export OPENROUTER_API_KEY=<your_key> and try again."

\* result_json["choices"][0]["message"]["content"].strip()
first_choice_content(result_json, posted) ==
    LET choice == result_json.o.choices.l[1]
    IN  IF choice.t # "obj" THEN Raised("TypeError", posted)
        ELSE IF "message" \notin DOMAIN choice.o THEN Raised("KeyError", posted)
        ELSE LET message == choice.o.message
             IN  IF message.t # "obj" THEN Raised("TypeError", posted)
                 ELSE IF "content" \notin DOMAIN message.o THEN Raised("KeyError", posted)
                 ELSE LET content == message.o.content
                      IN  IF content.t # "str" THEN Raised("AttributeError", posted)
                          ELSE Returned(Strip(content.s), posted)

\* The lines after the credential check: the POST and the reading of the answer.
post_and_read(prompt, svc) ==
    LET posted == <<prompt>>
    IN  IF svc.kind = "exception"
        THEN Returned("ERROR: Request to OpenRouter failed: " \o svc.e, posted)
        ELSE IF svc.status_code = 200
        THEN IF svc.json.t = "invalid"
             THEN \* response.json() raises requests' JSONDecodeError, a
                  \* RequestException, which the except clause catches
                  Returned("ERROR: Request to OpenRouter failed: " \o svc.e, posted)
             ELSE IF "choices" \in DOMAIN svc.json.o /\ Truthy(svc.json.o.choices)
             THEN first_choice_content(svc.json, posted)
             ELSE Returned("ERROR: No 'choices' returned by the LLM. "
                           \o "Response content:\n" \o svc.repr, posted)
        ELSE Returned("ERROR: OpenRouter responded with status "
                      \o ToString(svc.status_code) \o ":\n" \o svc.text, posted)

\* call_openrouter with the credential check left out.
call_openrouter_unchecked(prompt, openrouter_key, svc) == post_and_read(prompt, svc)

call_openrouter(prompt, openrouter_key, svc) ==
    IF openrouter_key = PyNone \/ openrouter_key = PyStr("")
    THEN Returned(MISSING_KEY_ERROR, <<>>)
    ELSE post_and_read(prompt, svc)

-----------------------------------------------------------------------------
(* api_tester.py: extract_code_from_response                               *)

\* The backquote character. A TLA+ string cannot hold it, so every text of the
\* model writes it as a tilde, a character none of the program's texts uses.
BACKQUOTE == "~"

FENCE == BACKQUOTE \o BACKQUOTE \o BACKQUOTE

\* The last index <= to at which t occurs in s, or 0.
RECURSIVE FindLast(_, _, _)
FindLast(s, t, to) ==
    IF to < 1 THEN 0
    ELSE IF SubSeq(s, to, to + Len(t) - 1) = t THEN to
    ELSE FindLast(s, t, to - 1)

\* The pattern with a greedy group: the block runs to the last closing fence.
fence_search_greedy(s) ==
    LET i == Find(s, FENCE, 1)
        a == i + 3
        b == IF a + 5 <= Len(s) /\ SubSeq(s, a, a + 5) = "python" THEN a + 6 ELSE a
        p == SkipSpace(s, b)
        k == FindLast(s, FENCE, Len(s) - 2)
    IN  IF i = 0 \/ k < p
        THEN [found |-> FALSE, group1 |-> ""]
        ELSE [found |-> TRUE, group1 |-> RStrip(SubSeq(s, p, k - 1))]

\* re.search of the fenced-block pattern with DOTALL: the leftmost opening fence,
\* the optional "python" tag, the whitespace after it, then the shortest text up
\* to whitespace and a closing fence. Gives [found, group1].
fence_search(s) ==
    LET i == Find(s, FENCE, 1)
        a == i + 3
        b == IF a + 5 <= Len(s) /\ SubSeq(s, a, a + 5) = "python" THEN a + 6 ELSE a
        p == SkipSpace(s, b)
        k == Find(s, FENCE, p)
    IN  IF i = 0 \/ k = 0
        THEN [found |-> FALSE, group1 |-> ""]
        ELSE [found |-> TRUE, group1 |-> RStrip(SubSeq(s, p, k - 1))]

extract_code_from_response(llm_response) ==
    LET match == fence_search(llm_response)
    IN  IF match.found THEN Strip(match.group1) ELSE Strip(llm_response)

-----------------------------------------------------------------------------
(* api_tester.py: the prompts                                              *)

TEST_TEMPLATE ==
    "\n"
    \o "import os\n"
    \o "import requests\n"
    \o "import pytest\n"
    \o "\n"
    \o "BASE_URL = os.getenv('TEST_API_URL', 'http://localhost:8000')\n"
    \o "\n"
    \o "{test_functions}\n"

PLAN_PROMPT ==
    "Generate a test plan for a fictional REST API with categories like "
    \o "authorization, boundary, and error handling. Include a few scenarios each."

GENERATION_PROMPT ==
    "\n"
    \o "Below is a skeleton of our test file using pytest. Fill in the 'test_functions'\n"
    \o "placeholder with tests for the following real API behavior from main.py:\n"
    \o "\n"
    \o "1) GET /api/endpoint?param=max => 200, JSON { \"result\": \"success\" }\n"
    \o "2) GET /api/endpoint?param=min => 200, JSON { \"result\": \"success\" }\n"
    \o "3) If param != 'max'/'min':\n"
    \o "   - no Authorization header => 401\n"
    \o "   - 'Bearer invalid-api-key' => 403\n"
    \o "   - otherwise => 404\n"
    \o "4) GET /api/nonexistent => 404\n"
    \o "5) GET /api/error => 500\n"
    \o "\n"
    \o "We want these exact tests:\n"
    \o "- test_endpoint_with_max\n"
    \o "- test_endpoint_with_min\n"
    \o "- test_endpoint_no_auth\n"
    \o "- test_endpoint_invalid_api_key\n"
    \o "- test_endpoint_random_auth_key\n"
    \o "- test_nonexistent_endpoint\n"
    \o "- test_error_endpoint\n"
    \o "\n"
    \o "Skeleton:\n"
    \o FENCE \o "python\n"
    \o TEST_TEMPLATE \o "\n"
    \o FENCE \o "\n"
    \o "\n"
    \o "Requirements:\n"
    \o "1. Use '/api/' prefix for all routes.\n"
    \o "2. Only return valid Python code, wrapped in triple backticks (no extra commentary).\n"
    \o "3. Keep 'BASE_URL' from env or default http://localhost:8000.\n"
    \o "4. Provide all tests in place of {test_functions}.\n"
    \o "5. Each test asserts the correct status code (and JSON if needed).\n"
    \o "6. The final output should be a complete Python file that can run under pytest.\n"

\* The prompt handle_feedback builds around the user's feedback.
feedback_prompt_text(user_feedback) ==
    "\n"
    \o "We have the above logic for '/api/endpoint', '/api/nonexistent', and '/api/error'.\n"
    \o "User feedback: '" \o user_feedback \o "'\n"
    \o "\n"
    \o "Please update or expand the test code using the same approach. \n"
    \o "The skeleton is:\n"
    \o FENCE \o "python\n"
    \o TEST_TEMPLATE \o "\n"
    \o FENCE \o "\n"
    \o "Insert your changes in {test_functions}, produce valid Python code in triple backticks.\n"

-----------------------------------------------------------------------------
(* api_tester.py: the four commands                                        *)

\* print(x): x and a newline on stdout.
print(x) == x \o "\n"

\* How a command ended: what it printed, the file it left, how its completion
\* call ended, and the exception that left it ("" when it returned).
Ended(out, f, c, exc) == [stdout |-> out, file |-> f, completion |-> c, exc |-> exc]

generate_plan(key, svc, f) ==
    LET head == print("\n----- Fetching a Test Plan from the LLM -----\n")
        plan == call_openrouter(PLAN_PROMPT, key, svc)
    IN  IF plan.outcome = "raise" THEN Ended(head, f, plan, plan.exc)
        ELSE Ended(head \o print(plan.text) \o print("\n----- End of Test Plan -----\n"),
                   f, plan, "")

output_file == "generated_tests.py"

\* open(output_file, "w") and f.write(python_code): what is left on disk.
write_file(f, python_code, fs) ==
    CASE fs.kind = "ok" -> PyStr(python_code)
      [] fs.kind = "open_fails" -> f            \* open() raised: nothing touched
      [] fs.kind = "write_fails" -> PyStr("")   \* truncated by open(), write raised

\* The rest of generate_test_code once the response is taken for code.
extract_and_write(head, raw, f, fs) ==
    LET python_code == extract_code_from_response(raw.text)
        written == write_file(f, python_code, fs)
    IN  IF fs.kind = "ok"
        THEN Ended(head
                   \o print("Successfully generated test code in '" \o output_file \o "'\n")
                   \o print("----- You may now run the tests with: python api_tester.py run -----\n"),
                   written, raw, "")
        ELSE Ended(head \o print("ERROR: Could not write to " \o output_file \o ": " \o fs.e),
                   written, raw, "")

\* generate_test_code without the test for an "ERROR:" response.
generate_test_code_no_abort(key, svc, fs, f) ==
    LET head == print("\n----- Requesting Test Code from the LLM -----\n")
        raw_response == call_openrouter(GENERATION_PROMPT, key, svc)
    IN  IF raw_response.outcome = "raise" THEN Ended(head, f, raw_response, raw_response.exc)
        ELSE extract_and_write(head, raw_response, f, fs)

generate_test_code(key, svc, fs, f) ==
    LET head == print("\n----- Requesting Test Code from the LLM -----\n")
        raw_response == call_openrouter(GENERATION_PROMPT, key, svc)
    IN  IF raw_response.outcome = "raise" THEN Ended(head, f, raw_response, raw_response.exc)
        ELSE IF StartsWith(raw_response.text, "ERROR:")
        THEN Ended(head \o print(raw_response.text) \o print("\nGeneration aborted."),
                   f, raw_response, "")
        ELSE extract_and_write(head, raw_response, f, fs)

\* run_tests. pytest writes straight to the inherited stdout while the prints of
\* this process are block-buffered when stdout is a pipe, and then reach it only
\* at exit, after pytest's output.
run_tests(pytest, piped, f) ==
    LET head == print("\n----- Running the generated tests with pytest -----\n")
        code == pytest.code
        tail == IF code = 0
                THEN print("\nAll tests passed successfully!")
                ELSE print("\nSome tests failed with exit code " \o ToString(code)
                           \o ". See above for details.")
    IN  IF ~pytest.spawned
        THEN Ended(head, f, NoCall, "FileNotFoundError")  \* subprocess.call raised
        ELSE IF piped
        THEN Ended(pytest.output \o head \o tail, f, NoCall, "")
        ELSE Ended(head \o pytest.output \o tail, f, NoCall, "")

\* handle_feedback persisting the code of the response as generate does.
handle_feedback_persisting(user_feedback, key, svc, f) ==
    LET head == print("\n----- Processing feedback with LLM -----\n")
        resp == call_openrouter(feedback_prompt_text(user_feedback), key, svc)
    IN  IF resp.outcome = "raise" THEN Ended(head, f, resp, resp.exc)
        ELSE Ended(head \o print(resp.text) \o print("\n----- End of Feedback Response -----\n"),
                   PyStr(extract_code_from_response(resp.text)), resp, "")

handle_feedback(user_feedback, key, svc, f) ==
    LET head == print("\n----- Processing feedback with LLM -----\n")
        resp == call_openrouter(feedback_prompt_text(user_feedback), key, svc)
    IN  IF resp.outcome = "raise" THEN Ended(head, f, resp, resp.exc)
        ELSE Ended(head \o print(resp.text) \o print("\n----- End of Feedback Response -----\n"),
                   f, resp, "")

-----------------------------------------------------------------------------
(* api_tester.py: main                                                     *)

\* " ".join(words)
RECURSIVE JoinSpace(_)
JoinSpace(words) ==
    IF Len(words) = 0 THEN ""
    ELSE IF Len(words) = 1 THEN words[1]
    ELSE words[1] \o " " \o JoinSpace(Tail(words))

\* sys.exit(1) after printing `out`.
SysExit(out, f) == Ended(out, f, NoCall, "SystemExit")

USAGE ==
    print("Usage:")
    \o print("  python api_tester.py plan")
    \o print("  python api_tester.py generate")
    \o print("  python api_tester.py run")
    \o print("  python api_tester.py feedback \"Your feedback\"")

\* main taking a missing feedback text for an empty one.
main_feedback_default(args, key, env, f) ==
    IF Len(args) < 2 THEN SysExit(USAGE, f)
    ELSE LET command == Lower(args[2])
         IN  IF command = "plan" THEN generate_plan(key, env.svc, f)
             ELSE IF command = "generate" THEN generate_test_code(key, env.svc, env.fs, f)
             ELSE IF command = "run" THEN run_tests(env.pytest, env.piped, f)
             ELSE IF command = "feedback"
             THEN handle_feedback(JoinSpace(SubSeq(args, 3, Len(args))), key, env.svc, f)
             ELSE SysExit(print("Unknown command: " \o command)
                          \o print("Valid commands: plan, generate, run, feedback"), f)

\* main() on sys.argv = args, in the environment env, finding the file f.
main(args, key, env, f) ==
    IF Len(args) < 2 THEN SysExit(USAGE, f)
    ELSE LET command == Lower(args[2])
         IN  IF command = "plan" THEN generate_plan(key, env.svc, f)
             ELSE IF command = "generate" THEN generate_test_code(key, env.svc, env.fs, f)
             ELSE IF command = "run" THEN run_tests(env.pytest, env.piped, f)
             ELSE IF command = "feedback"
             THEN IF Len(args) < 3
                  THEN SysExit(print("Please provide your feedback in quotes, for example:\n"
                                     \o "  python api_tester.py feedback \"Add a boundary test.\""), f)
                  ELSE handle_feedback(JoinSpace(SubSeq(args, 3, Len(args))), key, env.svc, f)
             ELSE SysExit(print("Unknown command: " \o command)
                          \o print("Valid commands: plan, generate, run, feedback"), f)

\* The exit status of the process: 0 when main returns, 1 for sys.exit(1) and
\* for an exception nothing caught (the interpreter prints the traceback).
ExitStatus(ended) == IF ended.exc = "" THEN 0 ELSE 1

\* `python api_tester.py ...`: one CLI process from start to exit.
python_api_tester(args, key, env, f) ==
    LET ended == main(args, key, env, f)
    IN  [exit_status |-> ExitStatus(ended), stdout |-> ended.stdout, file |-> ended.file,
         completion |-> ended.completion, exc |-> ended.exc]

-----------------------------------------------------------------------------
(* The environment of a CLI process: credential, completion service, disk,  *)
(* test runner                                                             *)

Keys == {PyNone, PyStr(""), PyStr("sk-or-v1-0123")}

Svc(kind, status_code, text, json, repr, e) ==
    [kind |-> kind, status_code |-> status_code, text |-> text, json |-> json,
     repr |-> repr, e |-> e]

JInvalid == [t |-> "invalid"]

\* A 200 answer whose first choice carries `content`.
Answer(content) ==
    Svc("response", 200, "", JObj([choices |-> JList(<<JObj([message |->
        JObj([content |-> content])])>>)]), "", "")

CodeFenced ==
    FENCE \o "python\nimport os\n\ndef test_error_endpoint():\n    assert True\n" \o FENCE
CodePlain == "  def test_plain():\n    pass\n"
CodeTwoBlocks ==
    "Here you go:\n" \o FENCE \o "\nx = 1\n" \o FENCE \o "\nand\n"
    \o FENCE \o "python\ny = 2\n" \o FENCE \o "\n"
CodeAfterErrorWord ==
    "ERROR: handling tests\n" \o FENCE \o "python\ndef test_error():\n    pass\n" \o FENCE

Contents == {CodeFenced, CodePlain, CodeTwoBlocks, CodeAfterErrorWord}

\* requests.post raised, or the response it returned.
Services ==
    {Answer(JStr(c)) : c \in Contents}
    \cup {Answer(JNull)}
    \cup { Svc("exception", 0, "", JNull, "", "Connection refused"),
           Svc("response", 500, "Internal Server Error", JNull, "", ""),
           Svc("response", 200, "<html>", JInvalid, "",
               "Expecting value: line 1 column 1 (char 0)"),
           Svc("response", 200, "", JObj([error |-> JStr("rate limited")]),
               "{'error': 'rate limited'}", ""),
           Svc("response", 200, "", JObj([choices |-> JList(<<>>)]), "{'choices': []}", ""),
           Svc("response", 200, "", JObj([choices |-> JNull]), "{'choices': None}", ""),
           Svc("response", 200, "", JObj([choices |-> JList(<<JObj([index |-> JStr("0")])>>)]),
               "", ""),
           Svc("response", 200, "",
               JObj([choices |-> JList(<<JObj([message |-> JObj([role |-> JStr("assistant")])])>>)]),
               "", "") }

FsOk == [kind |-> "ok", e |-> ""]
FsOutcomes ==
    { FsOk,
      [kind |-> "open_fails", e |-> "[Errno 13] Permission denied: 'generated_tests.py'"],
      [kind |-> "write_fails", e |-> "[Errno 28] No space left on device"] }

\* pytest: whether the process could be started, its exit status and its stdout.
Pytest(spawned, code, output) == [spawned |-> spawned, code |-> code, output |-> output]
NoPytest == Pytest(FALSE, 0, "")

\* What `pytest generated_tests.py -v` can do when it finds the file f.
PytestOutcomes(f) ==
    {NoPytest}
    \cup IF f = PyNone
         THEN {Pytest(TRUE, 4, "no tests ran in 0.00s\n")}
         ELSE { Pytest(TRUE, 0, "generated_tests.py::test_error_endpoint PASSED\n1 passed\n"),
                Pytest(TRUE, 0, "generated_tests.py::test_reports_FAILED_status PASSED\n1 passed\n"),
                Pytest(TRUE, 1, "generated_tests.py::test_error_endpoint FAILED\n1 failed\n"),
                Pytest(TRUE, 2, "ERROR collecting generated_tests.py\n1 error\n"),
                Pytest(TRUE, 5, "no tests ran in 0.01s\n") }

\* The parts of the environment the command args[2] can meet.
Environments(args, f) ==
    LET command == IF Len(args) >= 2 THEN Lower(args[2]) ELSE ""
    IN  [svc : IF command \in {"plan", "generate", "feedback"} THEN Services ELSE {NotContacted},
         fs : IF command = "generate" THEN FsOutcomes ELSE {FsOk},
         pytest : IF command = "run" THEN PytestOutcomes(f) ELSE {NoPytest},
         piped : IF command = "run" THEN BOOLEAN ELSE {FALSE}]

\* The files the program may find at start.
InitialFiles == {PyNone, PyStr("def test_old():\n    assert False\n")}

-----------------------------------------------------------------------------
(* The CLI run from a shell                                                *)

\* The state the process p, started as `python api_tester.py args[2..]` in the
\* environment env, leaves behind.
Ran(args, env, p) ==
    /\ argv' = args
    /\ http' = IF p.completion.posted # <<>> THEN env.svc ELSE NotContacted
    /\ completion' = p.completion
    /\ posts' = p.completion.posted
    /\ file' = p.file
    /\ file_before' = file
    /\ exit_status' = p.exit_status
    /\ stdout' = p.stdout
    /\ UNCHANGED environ_key

\* `python api_tester.py args[2..]` typed in a shell: the process runs to its exit
\* in one of the environments it can meet.
Shell(args) ==
    \E env \in Environments(args, file) :
        \E p \in {python_api_tester(args, environ_key, env, file)} : Ran(args, env, p)

CliPlan ==
    /\ \E a \in {"plan", "PLAN"} : Shell(<<"api_tester.py", a>>)
    /\ UNCHANGED <<apiVars, agentVars, extractVars>>

CliGenerate ==
    /\ Shell(<<"api_tester.py", "generate">>)
    /\ UNCHANGED <<apiVars, agentVars, extractVars>>

CliRun ==
    /\ Shell(<<"api_tester.py", "run">>)
    /\ UNCHANGED <<apiVars, agentVars, extractVars>>

CliFeedback ==
    /\ \E words \in {<<"Add a boundary test.">>, <<"use", "param=100">>} :
           Shell(<<"api_tester.py", "feedback">> \o words)
    /\ UNCHANGED <<apiVars, agentVars, extractVars>>

\* The invocations main answers with sys.exit(1).
CliUsage ==
    /\ \E args \in {<<"api_tester.py">>, <<"api_tester.py", "feedback">>,
                    <<"api_tester.py", "deploy">>, <<"api_tester.py", "Plans", "x">>} :
           Shell(args)
    /\ UNCHANGED <<apiVars, agentVars, extractVars>>

-----------------------------------------------------------------------------
(* agent_tools.py: the tools                                               *)

\* repr(c) of one character inside the quotes q.
ReprChar(c, q) ==
    CASE c = "\\" -> "\\\\"
      [] c = "\n" -> "\\n"
      [] c = "\t" -> "\\t"
      [] c = "\r" -> "\\r"
      [] c = "\f" -> "\\x0c"
      [] c = q -> "\\" \o q
      [] OTHER -> c

RECURSIVE ReprBody(_, _)
ReprBody(s, q) ==
    IF Len(s) = 0 THEN ""
    ELSE IF Len(s) = 1 THEN ReprChar(s, q)
    ELSE LET h == Len(s) \div 2
         IN  ReprBody(SubSeq(s, 1, h), q) \o ReprBody(SubSeq(s, h + 1, Len(s)), q)

\* repr(s) of a str: double quotes only when s holds ' and no ".
PyRepr(s) ==
    LET q == IF Contains(s, "'") /\ ~Contains(s, "\"") THEN "\"" ELSE "'"
    IN  q \o ReprBody(s, q) \o q

\* str(cmd) of a list of str.
RECURSIVE ReprItems(_)
ReprItems(cmd) ==
    IF Len(cmd) = 0 THEN ""
    ELSE IF Len(cmd) = 1 THEN PyRepr(cmd[1])
    ELSE PyRepr(cmd[1]) \o ", " \o ReprItems(Tail(cmd))

\* str(e) of the CalledProcessError check_output raises on a nonzero exit.
CalledProcessError(cmd, returncode) ==
    "Command '[" \o ReprItems(cmd) \o "]' returned non-zero exit status "
    \o ToString(returncode) \o "."

\* subprocess.check_output(["python"] + args) inside try/except: the decoded
\* stdout of the process, or the tool's error text when it exited nonzero.
check_output(name, args, p) ==
    [output |-> IF p.exit_status = 0
                THEN p.stdout
                ELSE "Error running " \o name \o ": "
                     \o CalledProcessError(<<"python">> \o args, p.exit_status),
     args |-> args,
     process |-> p]

\* The tools read their stdout through a pipe.
PipedEnvironments(args, f) == {env \in Environments(args, f) : args[2] = "run" => env.piped}

\* generate_tool handing its input text on into the prompt of the request.
generate_tool_forwarding(input_text, key, env, f) ==
    LET p == python_api_tester(<<"api_tester.py", "generate">>, key, env, f)
        sent == IF p.completion.posted = <<>> THEN <<>>
                ELSE <<GENERATION_PROMPT \o "\n" \o input_text>>
    IN  check_output("generate_tool", <<"api_tester.py", "generate">>,
                     [p EXCEPT !.completion.posted = sent])

generate_tool(input_text, key, env, f) ==
    check_output("generate_tool", <<"api_tester.py", "generate">>,
                 python_api_tester(<<"api_tester.py", "generate">>, key, env, f))

run_tool(input_text, key, env, f) ==
    check_output("run_tool", <<"api_tester.py", "run">>,
                 python_api_tester(<<"api_tester.py", "run">>, key, env, f))

feedback_tool(user_feedback, key, env, f) ==
    check_output("feedback_tool", <<"api_tester.py", "feedback", user_feedback>>,
                 python_api_tester(<<"api_tester.py", "feedback", user_feedback>>, key, env, f))

-----------------------------------------------------------------------------
(* agent.py: safe_run_tests                                                *)

\* "failed" in output.lower()
failed(output) == Contains(Lower(output), "failed")

\* The test of the first run made without lower().
after_first_run_case_sensitive(first) ==
    IF ~Contains(first, "failed")
    THEN [pc |-> "done", report |-> PyStr("All tests passed on first attempt.\n\n" \o first)]
    ELSE [pc |-> "feedback", report |-> Unset]

\* Lines 24-25: return after the first run, or go on to the reflection cycle.
after_first_run(first) ==
    IF ~failed(first)
    THEN [pc |-> "done", report |-> PyStr("All tests passed on first attempt.\n\n" \o first)]
    ELSE [pc |-> "feedback", report |-> Unset]

feedback_prompt(first) ==
    "Some tests failed. Here is the run output:\n\n"
    \o first \o "\n\n"
    \o "Please fix these failures and regenerate the tests accordingly."

\* Regeneration skipped when the feedback call reported an error.
after_feedback_stop_on_error(feedback) ==
    IF StartsWith(feedback, "Error running") \/ Contains(feedback, "ERROR:")
    THEN "second_run"
    ELSE "generate"

\* Lines 35-38: generate_tool follows feedback_tool, whatever it returned.
after_feedback(feedback) == "generate"

\* Lines 38-42: the second run follows generate_tool, whatever it returned.
after_generate(generated) == "second_run"

\* A second failure sending the loop back to another reflection cycle.
after_second_run_retry(first, feedback, generated, second) ==
    IF ~failed(second)
    THEN [pc |-> "done",
          report |-> PyStr("Tests passed on second attempt after reflection.\n\n" \o second)]
    ELSE [pc |-> "feedback", report |-> Unset]

\* The report of a second failure with the artifacts in the reverse order.
after_second_run_reversed(first, feedback, generated, second) ==
    IF ~failed(second)
    THEN [pc |-> "done",
          report |-> PyStr("Tests passed on second attempt after reflection.\n\n" \o second)]
    ELSE [pc |-> "done",
          report |-> PyStr("Tests still failed after one reflection attempt.\n\n"
                           \o "Second run output:\n" \o second \o "\n\n"
                           \o "Regeneration output:\n" \o generated \o "\n\n"
                           \o "Feedback response:\n" \o feedback \o "\n\n"
                           \o "First run output:\n" \o first)]

\* Lines 43-52: the return after the second run.
after_second_run(first, feedback, generated, second) ==
    IF ~failed(second)
    THEN [pc |-> "done",
          report |-> PyStr("Tests passed on second attempt after reflection.\n\n" \o second)]
    ELSE [pc |-> "done",
          report |-> PyStr("Tests still failed after one reflection attempt.\n\n"
                           \o "First run output:\n" \o first \o "\n\n"
                           \o "Feedback response:\n" \o feedback \o "\n\n"
                           \o "Regeneration output:\n" \o generated \o "\n\n"
                           \o "Second run output:\n" \o second)]

\* One tool call of safe_run_tests, as recorded in `calls`.
Call(name, input, t) ==
    [tool |-> name, input |-> input, output |-> t.output,
     posted |-> t.process.completion.posted]

\* The agent framework calls safe_run_tests(input_text).
SafeRunCalled ==
    /\ pc = "idle"
    /\ pc' = "first_run"
    /\ UNCHANGED <<first_run_output, feedback_output, generate_output, second_run_output,
                   report, calls, cliVars, apiVars, extractVars>>

\* first_run_output = run_tool("Run tests") and the test on it.
FirstRun ==
    /\ pc = "first_run"
    /\ \E env \in PipedEnvironments(<<"api_tester.py", "run">>, file) :
         \E t \in {run_tool("Run tests", environ_key, env, file)} :
           \E next \in {after_first_run(t.output)} :
             /\ Ran(t.args, env, t.process)
             /\ first_run_output' = PyStr(t.output)
             /\ calls' = Append(calls, Call("run_tool", "Run tests", t))
             /\ pc' = next.pc
             /\ report' = next.report
    /\ UNCHANGED <<feedback_output, generate_output, second_run_output, apiVars,
                   extractVars>>

\* feedback_output = feedback_tool(feedback_prompt)
Feedback ==
    /\ pc = "feedback"
    /\ \E prompt \in {feedback_prompt(first_run_output.s)} :
         \E env \in PipedEnvironments(<<"api_tester.py", "feedback", prompt>>, file) :
           \E t \in {feedback_tool(prompt, environ_key, env, file)} :
             /\ Ran(t.args, env, t.process)
             /\ feedback_output' = PyStr(t.output)
             /\ calls' = Append(calls, Call("feedback_tool", prompt, t))
             /\ pc' = after_feedback(t.output)
    /\ UNCHANGED <<first_run_output, generate_output, second_run_output, report, apiVars,
                   extractVars>>

\* generate_output = generate_tool("Regenerate tests after failures")
Generate ==
    /\ pc = "generate"
    /\ \E env \in PipedEnvironments(<<"api_tester.py", "generate">>, file) :
         \E t \in {generate_tool("Regenerate tests after failures", environ_key, env, file)} :
           /\ Ran(t.args, env, t.process)
           /\ generate_output' = PyStr(t.output)
           /\ calls' = Append(calls, Call("generate_tool", "Regenerate tests after failures", t))
           /\ pc' = after_generate(t.output)
    /\ UNCHANGED <<first_run_output, feedback_output, second_run_output, report, apiVars,
                   extractVars>>

\* second_run_output = run_tool("Run tests again") and the return.
SecondRun ==
    /\ pc = "second_run"
    /\ \E env \in PipedEnvironments(<<"api_tester.py", "run">>, file) :
         \E t \in {run_tool("Run tests again", environ_key, env, file)} :
           \E next \in {after_second_run(first_run_output.s, feedback_output.s,
                                         generate_output.s, t.output)} :
             /\ Ran(t.args, env, t.process)
             /\ second_run_output' = PyStr(t.output)
             /\ calls' = Append(calls, Call("run_tool", "Run tests again", t))
             /\ pc' = next.pc
             /\ report' = next.report
    /\ UNCHANGED <<first_run_output, feedback_output, generate_output, apiVars,
                   extractVars>>

\* No CLI process has run yet.
CliIdle ==
    /\ argv = <<>>
    /\ http = NotContacted
    /\ completion = NoCall
    /\ posts = <<>>
    /\ file_before = file
    /\ exit_status = 0
    /\ stdout = ""

ApiIdle == request = [path |-> "/api/error", param |-> PyNone, auth |-> PyNone] /\ response = Pending

\* safe_run_tests has not been called.
AgentIdle ==
    /\ pc = "idle"
    /\ first_run_output = Unset
    /\ feedback_output = Unset
    /\ generate_output = Unset
    /\ second_run_output = Unset
    /\ report = Unset
    /\ calls = <<>>

\* extract_code_from_response has not been called on its own.
ExtractIdle == response_text = "" /\ extracted = Unset

InitCli ==
    /\ environ_key \in Keys
    /\ file \in InitialFiles
    /\ CliIdle
    /\ ApiIdle
    /\ AgentIdle
    /\ ExtractIdle

NextCli == CliPlan \/ CliGenerate \/ CliRun \/ CliFeedback \/ CliUsage

SpecCli == InitCli /\ [][NextCli]_vars

InitApi ==
    /\ request \in Requests
    /\ response = Pending
    /\ environ_key = PyNone
    /\ file = PyNone
    /\ CliIdle
    /\ AgentIdle
    /\ ExtractIdle

NextApi == Serve

SpecApi == InitApi /\ [][NextApi]_vars

\* The pieces a response text is put together from: a fence, one backquote,
\* the tag, whitespace and a word.
Pieces == {FENCE, BACKQUOTE, "python", "\n", "x"}

\* The longest response, in pieces.
MaxPieces == 6

\* The texts of at most n pieces.
RECURSIVE TextsOf(_)
TextsOf(n) ==
    IF n = 0 THEN {""}
    ELSE LET shorter == TextsOf(n - 1)
         IN  shorter \cup {t \o piece : t \in shorter, piece \in Pieces}

Responses == TextsOf(MaxPieces)

InitExtract ==
    /\ response_text \in Responses
    /\ extracted = Unset
    /\ environ_key = PyNone
    /\ file = PyNone
    /\ CliIdle
    /\ ApiIdle
    /\ AgentIdle

\* extract_code_from_response(llm_response) called on response_text.
Extract ==
    /\ extracted = Unset
    /\ extracted' = PyStr(extract_code_from_response(response_text))
    /\ UNCHANGED <<response_text, apiVars, cliVars, agentVars>>

NextExtract == Extract

SpecExtract == InitExtract /\ [][NextExtract]_vars

Init ==
    /\ environ_key \in Keys
    /\ file \in InitialFiles
    /\ CliIdle
    /\ ApiIdle
    /\ AgentIdle
    /\ ExtractIdle

Next == SafeRunCalled \/ FirstRun \/ Feedback \/ Generate \/ SecondRun

Spec == Init /\ [][Next]_vars

-----------------------------------------------------------------------------
(* Properties of safe_run_tests (specification Spec)                        *)

\* How many times safe_run_tests has called the tool `name`.
Count(name) == Cardinality({i \in DOMAIN calls : calls[i].tool = name})

\* C1: in every execution of safe_run_tests, whatever the run, feedback and
\* generate tools return, the run tool is invoked at most twice: once it has been
\* invoked twice the function has returned, so no third run can follow.
C1_AtMostTwoRuns ==
    /\ Count("run_tool") <= 2
    /\ Count("run_tool") = 2 => pc = "done"

\* C1 witness: both runs failed, and the feedback and generate tools in between
\* returned their "Error running ..." texts.
C1_Witness ==
    /\ pc = "done"
    /\ Count("run_tool") = 2
    /\ failed(second_run_output.s)
    /\ StartsWith(feedback_output.s, "Error running feedback_tool")
    /\ StartsWith(generate_output.s, "Error running generate_tool")

\* C2: if the text of the first run holds "failed" in any letter case, then at
\* the return feedback, generate and a second run have each been invoked exactly
\* once; if it does not, the function has returned at once, with the first run as
\* its only call and the first-attempt success report carrying that run's output.
C2_ReflectionExactlyOnce ==
    first_run_output # Unset =>
        IF Contains(Lower(first_run_output.s), "failed")
        THEN /\ pc # "done" => report = Unset
             /\ pc = "done" =>
                   /\ Count("feedback_tool") = 1
                   /\ Count("generate_tool") = 1
                   /\ Count("run_tool") = 2
                   /\ ~StartsWith(report.s, "All tests passed on first attempt.")
        ELSE /\ pc = "done"
             /\ Len(calls) = 1
             /\ report = PyStr("All tests passed on first attempt.\n\n" \o first_run_output.s)

\* C2 witness: a first run whose text holds the word only in upper case went
\* through the whole reflection cycle.
C2_Witness ==
    /\ pc = "done"
    /\ ~Contains(first_run_output.s, "failed")
    /\ Contains(first_run_output.s, "FAILED")
    /\ Count("feedback_tool") = 1
    /\ Count("generate_tool") = 1
    /\ Count("run_tool") = 2

ReflectionOrder == <<"run_tool", "feedback_tool", "generate_tool", "run_tool">>

\* C3: the calls are made in the order run, feedback, generate, run; once the
\* feedback call has returned, whatever it returned, generate is the next call,
\* and once generate has returned, whatever it returned, the second run is.
C3_FixedOrder ==
    /\ Len(calls) <= 4
    /\ \A i \in DOMAIN calls : calls[i].tool = ReflectionOrder[i]
    /\ feedback_output # Unset => pc = "generate" \/ Len(calls) >= 3
    /\ generate_output # Unset => pc = "second_run" \/ Len(calls) = 4
    /\ (pc = "done" /\ failed(first_run_output.s)) => Len(calls) = 4

\* C3 witness: feedback ended with an "ERROR:" diagnostic and generate with its
\* tool's error text, and the second run was still made.
C3_Witness ==
    /\ pc = "done"
    /\ Len(calls) = 4
    /\ Contains(feedback_output.s, "ERROR: OpenRouter responded with status 500")
    /\ StartsWith(generate_output.s, "Error running generate_tool")

\* The fixed text of the report of a second failure.
StillFailedLabels ==
    "Tests still failed after one reflection attempt.\n\n"
    \o "First run output:\n" \o "\n\n" \o "Feedback response:\n" \o "\n\n"
    \o "Regeneration output:\n" \o "\n\n" \o "Second run output:\n"

\* C4: when the second run is classified as failed too, the report holds the four
\* artifacts in the order first run output, feedback response, regeneration
\* output, second run output, each under its label and each once: nothing else
\* is in the report than the labels and the four texts.
C4_ReportOrder ==
    (pc = "done" /\ second_run_output # Unset /\ failed(second_run_output.s)) =>
        LET r == report.s
            a1 == "First run output:\n" \o first_run_output.s \o "\n\n"
            a2 == "Feedback response:\n" \o feedback_output.s \o "\n\n"
            a3 == "Regeneration output:\n" \o generate_output.s \o "\n\n"
            a4 == "Second run output:\n" \o second_run_output.s
            p1 == Find(r, a1, 1)
            p2 == Find(r, a2, p1 + Len(a1))
            p3 == Find(r, a3, p2 + Len(a2))
            p4 == Find(r, a4, p3 + Len(a3))
        IN  /\ p1 # 0 /\ p2 # 0 /\ p3 # 0 /\ p4 # 0
            /\ p4 + Len(a4) - 1 = Len(r)
            /\ Len(r) = Len(StillFailedLabels) + Len(first_run_output.s)
                        + Len(feedback_output.s) + Len(generate_output.s)
                        + Len(second_run_output.s)

\* C4 witness: a second failure whose four artifacts are four different texts.
C4_Witness ==
    /\ pc = "done"
    /\ second_run_output # Unset
    /\ failed(second_run_output.s)
    /\ Cardinality({first_run_output.s, feedback_output.s, generate_output.s,
                    second_run_output.s}) = 4
    /\ StartsWith(report.s, "Tests still failed after one reflection attempt.")

-----------------------------------------------------------------------------
(* Properties of the fixture API (specification SpecApi)                    *)

\* C5: the answer is decided by (path, param, Authorization) alone: on
\* /api/endpoint, param "max" or "min" gives 200 and {"result":"success"} for
\* every Authorization value; any other param, or none, gives 403 for
\* "Bearer invalid-api-key", 401 for no header and 404 for any other header;
\* /api/nonexistent gives 404 and /api/error gives 500.
C5_FixtureTable ==
    response # Pending =>
        CASE request.path = "/api/endpoint" ->
                 IF request.param \in {PyStr("max"), PyStr("min")}
                 THEN response.status = 200 /\ response.body = "{\"result\":\"success\"}"
                 ELSE CASE request.auth = PyStr("Bearer invalid-api-key") -> response.status = 403
                        [] request.auth = PyNone -> response.status = 401
                        [] OTHER -> response.status = 404
          [] request.path = "/api/nonexistent" -> response.status = 404
          [] request.path = "/api/error" -> response.status = 500

\* C5 witness: param=max answered 200 although the request carried the invalid key.
C5_Witness ==
    /\ request.path = "/api/endpoint"
    /\ request.param = PyStr("max")
    /\ request.auth = PyStr("Bearer invalid-api-key")
    /\ response.status = 200

-----------------------------------------------------------------------------
(* Properties of the CLI (specification SpecCli)                            *)

\* The last CLI process ran the command `name`.
Commanded(name) == Len(argv) >= 2 /\ Lower(argv[2]) = name

MissingCredential == environ_key = PyNone \/ environ_key = PyStr("")

\* The answer svc is a 200 response whose first choice carries a content text.
UsableContent(svc) ==
    /\ svc.kind = "response"
    /\ svc.status_code = 200
    /\ svc.json.t = "obj"
    /\ "choices" \in DOMAIN svc.json.o
    /\ svc.json.o.choices.t = "list"
    /\ svc.json.o.choices.l # <<>>
    /\ svc.json.o.choices.l[1].t = "obj"
    /\ "message" \in DOMAIN svc.json.o.choices.l[1].o
    /\ svc.json.o.choices.l[1].o.message.t = "obj"
    /\ "content" \in DOMAIN svc.json.o.choices.l[1].o.message.o
    /\ svc.json.o.choices.l[1].o.message.o.content.t = "str"

ContentOf(svc) == svc.json.o.choices.l[1].o.message.o.content.s

\* The completion call of the last process succeeded (it made one, and the
\* service answered with usable content).
CompletionSucceeded == ~MissingCredential /\ UsableContent(http)

\* The completion call of the last process failed: missing credential, transport
\* failure, non-200 status, or a 200 body without usable content.
CompletionFailed == MissingCredential \/ ~UsableContent(http)

WriteFailed == Contains(stdout, "ERROR: Could not write to " \o output_file)

\* C6: after a generate call whose completion call succeeded (and whose write to
\* the disk did not fail), the output file holds exactly the code extracted from
\* the response of that call.
C6_GenerateWritesExtracted ==
    (Commanded("generate") /\ CompletionSucceeded /\ ~WriteFailed) =>
        file = PyStr(extract_code_from_response(Strip(ContentOf(http))))

\* C7: when the completion call made by generate fails (missing credential,
\* transport failure, non-200 status, malformed body), the file after the call is
\* the file before it, and an absent file stays absent.
C7_FailedGenerateKeepsFile ==
    (Commanded("generate") /\ CompletionFailed) => file = file_before

\* C7 witness: a generate whose completion call failed after an earlier generate
\* had written the file; the generated code is still there.
C7_Witness ==
    /\ Commanded("generate")
    /\ CompletionFailed
    /\ file_before \notin InitialFiles
    /\ file_before # PyStr("")
    /\ file = file_before

\* The invocation is one of the usage errors: no command, an unknown command, or
\* feedback without text.
UsageError ==
    \/ Len(argv) < 2
    \/ Lower(argv[2]) \notin {"plan", "generate", "run", "feedback"}
    \/ Lower(argv[2]) = "feedback" /\ Len(argv) < 3

\* C8: no failure of the completion service, the disk or the test runner leaves
\* plan, generate, run or feedback uncaught: the process exits with status 0, and
\* status 1 is the exit of the usage errors only.
C8_OnlyUsageErrorsExitOne ==
    argv # <<>> => (exit_status = (IF UsageError THEN 1 ELSE 0))

\* C9: a completion call answered with status 200 ends in one of two ways: it
\* returns an "ERROR:" diagnostic when the body has no usable content, or it
\* returns the trimmed content; no exception leaves the client.
C9_TwoOutcomesOn200 ==
    (posts # <<>> /\ http.kind = "response" /\ http.status_code = 200) =>
        /\ completion.outcome = "return"
        /\ IF UsableContent(http)
           THEN completion.text = Strip(ContentOf(http))
           ELSE StartsWith(completion.text, "ERROR:")

\* The last process called the completion client.
CalledCompletion == completion.outcome # "none"

\* C10: with no credential in the environment (unset or empty) the completion
\* client returns the missing-credential diagnostic and nothing is POSTed; a POST
\* is made only by a process that found a credential.
C10_NoCredentialNoPost ==
    /\ (CalledCompletion /\ MissingCredential) =>
           /\ completion.outcome = "return"
           /\ completion.text = MISSING_KEY_ERROR
           /\ posts = <<>>
           /\ http = NotContacted
    /\ posts # <<>> => ~MissingCredential

\* C10 witness: generate run with an empty OPENROUTER_API_KEY.
C10_Witness ==
    /\ Commanded("generate")
    /\ environ_key = PyStr("")
    /\ completion.text = MISSING_KEY_ERROR
    /\ posts = <<>>
    /\ Contains(stdout, "Generation aborted.")

-----------------------------------------------------------------------------
(* Properties of the extractor (specification SpecExtract)                 *)

\* The indices of s at which a fence stands.
FencePositions(s) == {i \in 1..(Len(s) - 2) : SubSeq(s, i, i + 2) = FENCE}

\* The well-formed blocks of s: an opening fence and a closing fence after it.
Blocks(s) == {b \in FencePositions(s) \X FencePositions(s) : b[2] >= b[1] + 3}

\* The block that opens first, closed by the first fence that can close it.
FirstBlock(s) ==
    CHOOSE b \in Blocks(s) :
        \A c \in Blocks(s) : b[1] < c[1] \/ (b[1] = c[1] /\ b[2] <= c[2])

\* The text between the fences of block b, the tag "python" left out.
Interior(s, b) ==
    LET a == b[1] + 3
        tagged == a + 6 <= b[2] /\ SubSeq(s, a, a + 5) = "python"
    IN  SubSeq(s, IF tagged THEN a + 6 ELSE a, b[2] - 1)

\* C11: the value returned for a text is the trimmed interior of its first
\* well-formed fenced block when it has one (whatever follows that block), the
\* trimmed text when it holds no fence, and the empty text for the empty text.
C11_ExtractContract ==
    extracted # Unset =>
        /\ (response_text = "" => extracted.s = "")
        /\ (FencePositions(response_text) = {} => extracted.s = Strip(response_text))
        /\ (Blocks(response_text) # {} =>
                extracted.s = Strip(Interior(response_text, FirstBlock(response_text))))

\* A tagged block holding "x" followed by a second block has been extracted.
C11_Witness ==
    /\ extracted = PyStr("x")
    /\ StartsWith(response_text, FENCE \o "python")
    /\ \E b \in Blocks(response_text) : b[1] >= FirstBlock(response_text)[2] + 3

\* C12: the value returned for a text holds no fence, whatever the text (an
\* unclosed fence and an odd number of fences included).
C12_NoFenceInResult ==
    extracted # Unset => ~Contains(extracted.s, FENCE)

-----------------------------------------------------------------------------
(* Frame and dispatch of the CLI (specification SpecCli)                   *)

\* C13: plan, run and feedback leave the output file as they found it, absent
\* or with its content, whatever the completion service or the test runner
\* answered: a step that changes the file is a run of the generate command.
C13_OnlyGenerateWrites ==
    [][file' # file => Commanded("generate")']_vars

\* A feedback run that received fenced code has left alone a file an earlier
\* generate wrote.
C13_Witness ==
    /\ Commanded("feedback")
    /\ CompletionSucceeded
    /\ Contains(completion.text, FENCE)
    /\ file \notin InitialFiles
    /\ file = file_before

\* A CLI process has run.
ProcessRan == argv # <<>>

Operations == {"plan", "generate", "run", "feedback"}

\* The line an operation prints first.
Banner(op) ==
    CASE op = "plan" -> "----- Fetching a Test Plan from the LLM -----"
      [] op = "generate" -> "----- Requesting Test Code from the LLM -----"
      [] op = "run" -> "----- Running the generated tests with pytest -----"
      [] op = "feedback" -> "----- Processing feedback with LLM -----"

\* The last process entered the operation op.
Invoked(op) == Contains(stdout, Banner(op))

\* C14: a process started with no command, with an unknown command, or with
\* feedback and no text exits with status 1 having entered no operation: no
\* completion call, no POST, no write to the file, no test run. A process started
\* with a known command and its arguments enters exactly the operation selected.
C14_Dispatch ==
    ProcessRan =>
        /\ UsageError =>
              /\ exit_status = 1
              /\ \A op \in Operations : ~Invoked(op)
              /\ ~CalledCompletion
              /\ posts = <<>>
              /\ file = file_before
        /\ ~UsageError =>
              /\ \A op \in Operations : Invoked(op) <=> Commanded(op)
              /\ Commanded("run") => ~CalledCompletion
              /\ ~Commanded("generate") => file = file_before

\* `feedback` without a text has been refused, with a credential set and after
\* an earlier generate wrote the file.
C14_Witness ==
    /\ argv = <<"api_tester.py", "feedback">>
    /\ ~MissingCredential
    /\ file \notin InitialFiles
    /\ exit_status = 1

-----------------------------------------------------------------------------
(* What safe_run_tests reports (specification Spec)                        *)

\* safe_run_tests returned one of its two success reports.
ReportedSuccess ==
    /\ pc = "done"
    /\ report # Unset
    /\ \/ StartsWith(report.s, "All tests passed on first attempt.")
       \/ StartsWith(report.s, "Tests passed on second attempt after reflection.")

\* The last CLI process started the test runner and saw it exit with status 0:
\* run_tests printed its line for code == 0 and the process exited normally.
RunnerPassed ==
    /\ Commanded("run")
    /\ exit_status = 0
    /\ Contains(stdout, "\nAll tests passed successfully!\n")

\* C15: a success report is returned only when the test runner of the run it
\* reports on (the last CLI process at that point) was started and exited with
\* status 0; a run whose tool call gave the "Error running run_tool" text is not
\* reported as passed.
C15_SuccessMeansRunnerPassed ==
    ReportedSuccess => RunnerPassed

\* generate_tool of the reflection cycle has just returned.
Regenerated == pc = "second_run"

\* The file the last process left is settled by what it found, by how its
\* completion call ended and by the disk alone.
FileSettledByCompletion ==
    IF completion.outcome = "return" /\ ~StartsWith(completion.text, "ERROR:")
    THEN IF WriteFailed
         THEN file \in {file_before, PyStr("")}
         ELSE file = PyStr(extract_code_from_response(completion.text))
    ELSE file = file_before

\* C16: in the reflection cycle the first run and the feedback call leave the
\* file alone, the request generate makes carries the fixed generation prompt
\* and nothing of the first run's output or of the feedback response, and the
\* file generate leaves is settled by the completion it received (and the disk):
\* executions that differ only in the first run's output or in the feedback
\* response and receive the same completion leave the same file.
C16_GenerateIgnoresFeedback ==
    /\ [](Regenerated =>
            /\ posts \in {<<>>, <<GENERATION_PROMPT>>}
            /\ calls[Len(calls)].posted = posts
            /\ FileSettledByCompletion)
    /\ [][(pc \in {"first_run", "feedback"}) => (file' = file)]_vars

\* generate has overwritten the file with the code of its own completion after
\* a feedback call whose response carried other code.
C16_Witness ==
    /\ Regenerated
    /\ Contains(feedback_output.s, "y = 2")
    /\ posts = <<GENERATION_PROMPT>>
    /\ file = PyStr(extract_code_from_response(CodeFenced))
    /\ file # file_before

====
